---- MODULE Spec2Model ----
(***************************************************************************)
(* boost/utility/select_by_size.hpp as a state machine of the preprocessor *)
(* and of the set of explicit specializations a translation unit has seen. *)
(*                                                                         *)
(* State: the three macros the header reads and writes (the include guard, *)
(* BOOST_SELECT_BY_SIZE_MAX_CASE, SELECT_BY_SIZE_MAX_SPECIALIZED) and the  *)
(* sequence of SELECT_BY_SIZE_SPEC expansions emitted so far.  A macro is  *)
(* stored as its replacement list, not as a value: the preprocessor        *)
(* expands a replacement list where the macro is used, not where it is     *)
(* defined.                                                                *)
(***************************************************************************)
EXTENDS Integers, Sequences, FiniteSets

\* Largest value the translation unit defines BOOST_SELECT_BY_SIZE_MAX_CASE to.
MaxBound == 7

\* #define SELECT_BY_SIZE_MAX_SPECIALIZED 2 (line 65).
InitialMaxSpecialized == 2

\* #define BOOST_SELECT_BY_SIZE_MAX_CASE 2 (line 160), also the 2 of line 158.
MinMaxCase == 2

VARIABLES
    guard,           \* BOOST_UTILITY_SELECT_BY_SIZE_HPP_INCLUDED is defined
    maxCase,         \* the macro BOOST_SELECT_BY_SIZE_MAX_CASE
    maxSpecialized,  \* the macro SELECT_BY_SIZE_MAX_SPECIALIZED
    emitted,         \* the SELECT_BY_SIZE_SPEC expansions, in order
    inc,             \* history of the top-level inclusions
    lookup           \* the last use of select_by_size<Size>::value, if no
                     \* preprocessor directive of the translation unit
                     \* followed it

vars == <<guard, maxCase, maxSpecialized, emitted, inc, lookup>>

----------------------------------------------------------------------------
\* Macros as replacement lists.

Undefined == [kind |-> "undef", val |-> 0]
Literal(v) == [kind |-> "lit", val |-> v]
\* A replacement list that is the identifier BOOST_SELECT_BY_SIZE_MAX_CASE.
AliasOfMaxCase == [kind |-> "alias", val |-> 0]

\* The value of BOOST_SELECT_BY_SIZE_MAX_CASE in an #if expression; an
\* identifier that is not a macro evaluates to 0 there.
EvalMaxCase(mc) == IF mc.kind = "lit" THEN mc.val ELSE 0

\* The value of SELECT_BY_SIZE_MAX_SPECIALIZED in an #if expression, given
\* the current definition mc of BOOST_SELECT_BY_SIZE_MAX_CASE.
EvalMaxSpecialized(ms, mc) ==
    CASE ms.kind = "lit" -> ms.val
      [] ms.kind = "alias" -> EvalMaxCase(mc)
      [] OTHER -> 0

----------------------------------------------------------------------------
\* Definition of case_ (lines 97-98).

\* Mutant: case_<N> holds a case_<-1> instead of a case_<N - 1>.
sizeof_case_flat(N) == IF N = -1 THEN 1 ELSE 2

\* sizeof(case_<N>): case_<-1> is one char, case_<N> is a char followed by
\* a case_<N - 1>; every member has alignment 1.
RECURSIVE sizeof_case(_)
sizeof_case(N) == IF N <= -1 THEN 1 ELSE 1 + sizeof_case(N - 1)

----------------------------------------------------------------------------
\* SELECT_BY_SIZE_SPEC (lines 112-123).

\* Mutant: the member value is n instead of n - 1.
SELECT_BY_SIZE_SPEC_n(em, n) ==
    Append(em, [n |-> n, size |-> sizeof_case(n - 1), value |-> n])

\* One expansion: detail::sizeof_case_n = sizeof(case_<n - 1>) and the
\* explicit specialization select_by_size<sizeof_case_n> with value n - 1.
SELECT_BY_SIZE_SPEC(em, n) ==
    Append(em, [n |-> n, size |-> sizeof_case(n - 1), value |-> n - 1])

\* The default specializations (lines 127-129).
DefaultSpecializations(em) ==
    SELECT_BY_SIZE_SPEC(SELECT_BY_SIZE_SPEC(SELECT_BY_SIZE_SPEC(em, 0), 1), 2)

\* The file as included by BOOST_PP_ITERATE with BOOST_PP_ITERATION() = i:
\* the include guard is defined, BOOST_PP_IS_ITERATING is set (line 174).
IteratingInclusion(em, i) == SELECT_BY_SIZE_SPEC(em, i + 1)

\* BOOST_PP_ITERATE over the limits (lo, hi), both inclusive.
RECURSIVE Iterate(_, _, _)
Iterate(em, lo, hi) ==
    IF lo > hi THEN em ELSE Iterate(IteratingInclusion(em, lo), lo + 1, hi)

----------------------------------------------------------------------------
\* The non-iterating block (lines 155-172).

\* Mutant: the default is 3.
ClampMaxCase3(mc) ==
    IF mc.kind = "undef" \/ mc.val < MinMaxCase THEN Literal(3) ELSE mc

\* Lines 157-161.
ClampMaxCase(mc) ==
    IF mc.kind = "undef" \/ mc.val < MinMaxCase THEN Literal(MinMaxCase) ELSE mc

\* Mutant: >= for >.
NeedsSpecializationsGe(m, w) == m >= w

\* The condition of line 163.
NeedsSpecializations(m, w) == m > w

\* Mutant: the iteration starts one above the watermark.
IterationLimitsAbove(w, m) == <<w + 1, m>>

\* BOOST_PP_ITERATION_LIMITS (lines 165-166).
IterationLimits(w, m) == <<w, m>>

\* Mutant: the watermark is defined as the number the bound expands to.
RedefineMaxSpecializedEager(mc) == Literal(EvalMaxCase(mc))

\* Lines 168-169: the replacement list is the identifier
\* BOOST_SELECT_BY_SIZE_MAX_CASE, whatever that macro is defined as.
RedefineMaxSpecialized(mc) == AliasOfMaxCase

\* A top-level #include of the header from the preprocessor state pp:
\* the guarded part on the first inclusion, then the non-iterating block.
TopLevelInclusion(pp) ==
    LET first == ~pp.guard
        ms0 == IF first THEN Literal(InitialMaxSpecialized) ELSE pp.maxSpecialized
        em0 == IF first THEN DefaultSpecializations(pp.emitted) ELSE pp.emitted
        mc1 == ClampMaxCase(pp.maxCase)
        m == EvalMaxCase(mc1)
        w == EvalMaxSpecialized(ms0, mc1)
        lim == IterationLimits(w, m)
        extend == NeedsSpecializations(m, w)
    IN  [guard |-> TRUE,
         maxCase |-> Undefined,
         maxSpecialized |-> IF extend THEN RedefineMaxSpecialized(mc1) ELSE ms0,
         emitted |-> IF extend THEN Iterate(em0, lim[1], lim[2]) ELSE em0,
         bound |-> m,
         w |-> w,
         guarded |-> Len(em0)]

----------------------------------------------------------------------------
\* select_by_size (line 104) and BOOST_SELECT_BY_SIZE (lines 133-145).

Values(em, Size) == {em[i].value : i \in {j \in DOMAIN em : em[j].size = Size}}

\* Mutant: the primary template is defined, with a sentinel value.
select_by_size_sentinel(em, Size) ==
    IF Values(em, Size) = {}
    THEN [ok |-> TRUE, value |-> -1]
    ELSE [ok |-> Cardinality(Values(em, Size)) = 1,
          value |-> CHOOSE v \in Values(em, Size) : TRUE]

\* select_by_size<Size>::value: the primary template is declared only, so
\* the member exists only where an explicit specialization was emitted.
select_by_size(em, Size) ==
    IF Values(em, Size) = {}
    THEN [ok |-> FALSE, value |-> 0]
    ELSE [ok |-> Cardinality(Values(em, Size)) = 1,
          value |-> CHOOSE v \in Values(em, Size) : TRUE]

----------------------------------------------------------------------------
\* The state machine.

NoInclusion ==
    [done |-> FALSE, req |-> Undefined, bound |-> 0, w |-> 0, before |-> 0,
     guarded |-> 0, prevBound |-> 0, maxBound |-> 0]

NoLookup == [done |-> FALSE, size |-> 0, ok |-> FALSE, value |-> 0]

CaseIndices == -1 .. (MaxBound + 1)
Sizes == 0 .. (MaxBound + 4)

Init ==
    /\ guard = FALSE
    /\ maxCase = Undefined
    /\ maxSpecialized = Undefined
    /\ emitted = <<>>
    /\ inc = NoInclusion
    /\ lookup = NoLookup

\* The translation unit: #define BOOST_SELECT_BY_SIZE_MAX_CASE v.
DefineMaxCase(v) ==
    /\ maxCase.kind = "undef"
    /\ maxCase' = Literal(v)
    /\ lookup' = NoLookup
    /\ UNCHANGED <<guard, maxSpecialized, emitted, inc>>

\* The translation unit: #undef BOOST_SELECT_BY_SIZE_MAX_CASE.
UndefMaxCase ==
    /\ maxCase.kind = "lit"
    /\ maxCase' = Undefined
    /\ lookup' = NoLookup
    /\ UNCHANGED <<guard, maxSpecialized, emitted, inc>>

\* The translation unit: #include <boost/utility/select_by_size.hpp>.
Include ==
    /\ LET r == TopLevelInclusion([guard |-> guard, maxCase |-> maxCase,
                                   maxSpecialized |-> maxSpecialized,
                                   emitted |-> emitted])
       IN  /\ guard' = r.guard
           /\ maxCase' = r.maxCase
           /\ maxSpecialized' = r.maxSpecialized
           /\ emitted' = r.emitted
           /\ inc' = [done |-> TRUE,
                      req |-> maxCase,
                      bound |-> r.bound,
                      w |-> r.w,
                      before |-> Len(emitted),
                      guarded |-> r.guarded,
                      prevBound |-> inc.bound,
                      maxBound |-> IF r.bound > inc.maxBound THEN r.bound
                                   ELSE inc.maxBound]
    /\ lookup' = NoLookup

\* The translation unit: select_by_size<Size>::value.  The bound is defined
\* right before the inclusion it is meant for (lines 25-26) and undefined by
\* the inclusion (line 172), so select_by_size is used with it undefined.
SelectBySize(Size) ==
    /\ guard
    /\ maxCase.kind = "undef"
    /\ LET r == select_by_size(emitted, Size)
       IN lookup' = [done |-> TRUE, size |-> Size, ok |-> r.ok,
                     value |-> r.value]
    /\ UNCHANGED <<guard, maxCase, maxSpecialized, emitted, inc>>

\* The translation unit: BOOST_SELECT_BY_SIZE(int, value, expr) with an
\* expr of type case_<N>.
BoostSelectBySize(N) ==
    /\ guard
    /\ maxCase.kind = "undef"
    /\ LET boost_select_by_size_temp == sizeof_case(N)
           r == select_by_size(emitted, boost_select_by_size_temp)
       IN lookup' = [done |-> TRUE, size |-> boost_select_by_size_temp,
                     ok |-> r.ok, value |-> r.value]
    /\ UNCHANGED <<guard, maxCase, maxSpecialized, emitted, inc>>

Next ==
    \/ \E v \in 0 .. MaxBound : DefineMaxCase(v)
    \/ UndefMaxCase
    \/ Include
    \/ \E Size \in Sizes : SelectBySize(Size)
    \/ \E N \in CaseIndices : BoostSelectBySize(N)

Spec == Init /\ [][Next]_vars

----------------------------------------------------------------------------
\* What the claims speak of.

\* The case indices N for which SELECT_BY_SIZE_SPEC(N + 1) was expanded.
Generated(em) == {em[i].n - 1 : i \in DOMAIN em}

\* What SELECT_BY_SIZE_MAX_SPECIALIZED evaluates to in the current state.
Watermark == EvalMaxSpecialized(maxSpecialized, maxCase)

\* The case indices the last top-level inclusion emitted outside the guard.
EmittedByGenerator == {emitted[i].n - 1 : i \in (inc.guarded + 1) .. Len(emitted)}

Resolves(em, N) == select_by_size(em, sizeof_case(N)) = [ok |-> TRUE, value |-> N]

\* C1: for every generated case index N, select_by_size<sizeof(case_<N>)>
\* has the value N, and a use of select_by_size on the size of a generated
\* case yields the index of that size.
RoundTrip ==
    /\ \A N \in Generated(emitted) : Resolves(emitted, N)
    /\ \A N \in Generated(emitted) :
          (lookup.done /\ lookup.size = sizeof_case(N))
              => (lookup.ok /\ lookup.value = N)

\* C1 witness: the bound was 7 and the size of case_<4> resolved to 4.
RoundTripWitness ==
    /\ inc.req = Literal(7)
    /\ 4 \in Generated(emitted)
    /\ lookup = [done |-> TRUE, size |-> sizeof_case(4), ok |-> TRUE, value |-> 4]

\* C2: sizeof(case_<N>) is strictly increasing in N, over all case indices
\* and over the sizes recorded in detail::sizeof_case_n, so no two
\* specializations are keyed by the same size.
SizeMonotonic ==
    /\ \A N1, N2 \in CaseIndices : N1 < N2 => sizeof_case(N1) < sizeof_case(N2)
    /\ \A i, j \in DOMAIN emitted :
          emitted[i].n < emitted[j].n => emitted[i].size < emitted[j].size

\* C2 witness: cases -1 and MaxBound are both specialized.
SizeMonotonicWitness ==
    /\ -1 \in Generated(emitted)
    /\ MaxBound \in Generated(emitted)

\* C3: after one top-level inclusion with the bound undefined the watermark
\* is 2 and the cases -1, 0, 1 and 2 are exactly the specialized ones.
DefaultGeneratedSet ==
    (inc.done /\ inc.before = 0 /\ inc.req = Undefined)
        => /\ Watermark = 2
           /\ Generated(emitted) = {-1, 0, 1, 2}
           /\ Resolves(emitted, 2)

\* C4: an inclusion with bound K followed by one with bound M > K >= 2
\* leaves every index from -1 to M resolved to itself.
IncrementalExtension ==
    (inc.done /\ 2 <= inc.prevBound /\ inc.prevBound < inc.bound)
        => \A N \in -1 .. inc.bound : Resolves(emitted, N)

\* C5: the value SELECT_BY_SIZE_MAX_SPECIALIZED evaluates to never decreases.
WatermarkNeverDecreases == [][Watermark' >= Watermark]_vars

\* C6: a top-level inclusion whose bound is at most the watermark emits no
\* specialization outside the guard, and an inclusion with the bound of the
\* inclusion before it emits nothing at all.
Idempotence ==
    inc.done =>
        /\ inc.bound <= inc.w => Len(emitted) = inc.guarded
        /\ inc.bound = inc.prevBound => Len(emitted) = inc.before

\* C6 witness: the header was included twice running with the same bound
\* above 2.
IdempotenceWitness ==
    inc.done /\ inc.bound = inc.prevBound /\ inc.bound > MinMaxCase

Max(a, b) == IF a > b THEN a ELSE b

\* C7: select_by_size<S> has a value only for the size of a generated case,
\* a use on any other size finds no specialization, and no size of a case
\* above every requested bound has one.
UngeneratedSizesFail ==
    /\ \A S \in Sizes :
          select_by_size(emitted, S).ok
              <=> \E N \in Generated(emitted) : sizeof_case(N) = S
    /\ lookup.done =>
          (lookup.ok <=> \E N \in Generated(emitted) : sizeof_case(N) = lookup.size)
    /\ \A N \in CaseIndices :
          (lookup.done /\ lookup.size = sizeof_case(N) /\ N > Max(inc.maxBound, 1))
              => ~lookup.ok

\* C7 witness: a bound above 2 was requested and the size of the case one
\* above the largest requested bound was looked up without success.
UngeneratedSizesFailWitness ==
    /\ inc.maxBound > MinMaxCase
    /\ lookup.done
    /\ lookup.size = sizeof_case(inc.maxBound + 1)
    /\ ~lookup.ok

\* C8: a top-level inclusion with the bound undefined or below 2 leaves the
\* specializations, the macros and the watermark that the same inclusion
\* with the bound defined as 2 leaves.
BoundaryClamp ==
    [][(Include /\ (maxCase.kind = "undef" \/ maxCase.val < 2))
          => LET r == TopLevelInclusion([guard |-> guard,
                                         maxCase |-> Literal(2),
                                         maxSpecialized |-> maxSpecialized,
                                         emitted |-> emitted])
             IN  /\ emitted' = r.emitted
                 /\ maxSpecialized' = r.maxSpecialized
                 /\ maxCase' = r.maxCase
                 /\ Watermark' = EvalMaxSpecialized(r.maxSpecialized, r.maxCase)]_vars

\* C8 witness: after an inclusion that extended the specializations, the
\* header was included with the bound defined as 1.
BoundaryClampWitness ==
    inc.done /\ inc.req = Literal(1) /\ inc.prevBound > MinMaxCase

NoRegeneration ==
    \A i, j \in DOMAIN emitted : i # j => emitted[i].n # emitted[j].n

\* C10 witness: two inclusions running with increasing bounds above 2.
NoRegenerationWitness ==
    inc.done /\ inc.prevBound > MinMaxCase /\ inc.bound > inc.prevBound

====
